---- MODULE Spec2Model ----
(***************************************************************************)
(* Model of the TDA course notebooks.                                      *)
(*                                                                         *)
(*   02-StabilityOfClusteringAndBarcodes : single linkage hierarchical     *)
(*       clustering (linkage / squareform / pairwise_distances), the       *)
(*       weighted graph G and Gromov-Hausdorff stability.                  *)
(*   Takens embeddings notebook          : the sliding window embedding    *)
(*       and make_gravitational_waves.                                     *)
(*                                                                         *)
(* Real numbers are fixed-point: a distance r is the natural number        *)
(* floor(r * Scale).  Arrays are 0-based functions, as in numpy.           *)
(***************************************************************************)
EXTENDS Integers, Sequences, FiniteSets, TLC

VARIABLES
    \* --- notebook 02, clustering cells
    cell,       \* which cell of the notebook is being executed
    X,          \* the data points (np.array X), <<>> when the input is a matrix
    D,          \* the distance matrix D, <<>> while unbound
    y,          \* the condensed distance vector linkage works on
    n,          \* number of observations of the current linkage call
    members,    \* cluster id -> the observations it contains
    active,     \* ids of the clusters not yet merged
    linked,     \* the linkage matrix built so far: rows <<a, b, height, size>>
    plots,      \* the dendrograms shown so far (one linkage matrix each)
    G,          \* the weighted graph: a set of edges [u, v, weight]
    \* --- notebook 02, Gromov-Hausdorff stability
    spaceX,     \* the finite metric space (X, d_X): [n, d]
    spaceY,     \* the finite metric space (Y, d_Y): [n, d]
    ultraX,     \* (X, u_X) once SLHC has been applied, <<>> before
    ultraY,     \* (Y, u_Y) once SLHC has been applied, <<>> before
    \* --- Takens notebook, sliding window embedding
    signal,             \* the sampled signal, positions 0 .. n_samples - 1
    dimension,          \* d
    time_delay,         \* the discrete delay tau
    stride,             \* stride of the embedder (1 unless given)
    takensPc,           \* "start", "embedded", "projected" or "ValueError"
    embedded_signal,    \* the embedded point cloud: point -> coordinate -> value
    projection_coord,   \* the coordinate axis projected to
    projected_signal,   \* embedded_signal[:, projection_coord]
    \* --- Takens notebook, make_gravitational_waves
    n_signals,          \* parameter
    downsample_factor,  \* parameter
    n_snr_values,       \* parameter
    Norig,              \* len(gw["data"][0])
    Ndat,               \* len(gw["signal_present"])
    ncoeff,             \* per series, the noise coefficient (its index in Rcoef)
    jj,                 \* the loop variable j of the generation loop
    noisy_signals,      \* list of series; a series is a list of blocks
    gw_signals,         \* list of the downsampled reference signals
    labels,             \* np.zeros(n_signals), then labels[j] = sigp
    kflag,              \* the local k
    gwPc,               \* "loop", "returned", "ValueError" or "IndexError"
    \* --- Takens notebook, the learned parameters and the delay conversions
    nSamples,           \* n_samples
    frequency,          \* frequency (omega)
    time_delay_,        \* embedder.time_delay_, the discrete delay
    dimension_,         \* embedder.dimension_
    tau_continuous,     \* tau*np.pi/n_samples, as a rational multiple of pi
    check_quantity,     \* frequency*tau_continuous*d/np.pi, a rational
    rediscretised,      \* int(tau_continuous*n_samples/(2*np.pi))
    delayPc,            \* "fitted", then "converted"
    \* --- notebook 06, noise(N, scale, ndim)
    noise_N,            \* parameter N
    noise_scale,        \* parameter scale
    ndim,               \* parameter ndim
    point_cloud,        \* the array returned
    noisePc,            \* "called", then "returned"
    \* --- notebook 06, the districting barcodes
    file_rows,          \* number of rows of each array read by np.genfromtxt
    file_cols,          \* number of columns of each array read
    barcodes,           \* list of the arrays read
    dem_barcodes,       \* list of 6-row arrays
    rep_barcodes,       \* list of 6-row arrays
    all_barcodes,       \* dem_barcodes + rep_barcodes
    y_labels,           \* y
    csv_j,              \* the loop variable j
    csvPc,              \* "load", "dem", "rep", "combine", "labels", "done", "IndexError"
    \* --- the notebooks as scripts: cells run once, top to bottom
    notebook,           \* "02", "06" or "Takens"
    cell_index,         \* the next code cell to run, counted from 1
    bound,              \* the names bound so far
    bound_at,           \* for each bound name, the first line of the cell that bound it last
    last_reads,         \* for each name the last cell read, the cell that had bound it
    random_sample,      \* notebook 06: random_sample
    shown,              \* notebook 06: the classes of the two diagrams plotted
    script_labels,      \* Takens: labels returned by make_gravitational_waves
    background_idx,     \* Takens: background_idx
    signal_idx,         \* Takens: signal_idx
    scriptPc            \* "running", "finished" or "NameError"

slhcVars == <<cell, X, D, y, n, members, active, linked, plots, G>>

ghVars == <<spaceX, spaceY, ultraX, ultraY>>

takensVars ==
    <<signal, dimension, time_delay, stride, takensPc, embedded_signal,
      projection_coord, projected_signal>>

gwVars ==
    <<n_signals, downsample_factor, n_snr_values, Norig, Ndat, ncoeff, jj,
      noisy_signals, gw_signals, labels, kflag, gwPc>>

delayVars ==
    <<nSamples, frequency, time_delay_, dimension_, tau_continuous, check_quantity,
      rediscretised, delayPc>>

noiseVars == <<noise_N, noise_scale, ndim, point_cloud, noisePc>>

csvVars ==
    <<file_rows, file_cols, barcodes, dem_barcodes, rep_barcodes, all_barcodes,
      y_labels, csv_j, csvPc>>

scriptVars ==
    <<notebook, cell_index, bound, bound_at, last_reads, random_sample, shown,
      script_labels, background_idx, signal_idx, scriptPc>>

vars == <<slhcVars, ghVars, takensVars, gwVars, delayVars, noiseVars, csvVars, scriptVars>>

-----------------------------------------------------------------------------
(* Bounds of the model *)

\* fixed-point resolution: 1/Scale
Scale == 100
\* number of points of a freely chosen metric space
NPts == 3
\* largest distance (in whole units) of a freely chosen distance matrix
MaxDist == 4
\* number of points of a freely chosen point cloud
NCloud == 3
\* largest coordinate of a freely chosen point cloud
MaxCoord == 2
\* Gromov-Hausdorff: number of points of X and Y together
GHSize == 5
\* Gromov-Hausdorff: largest distance (in whole units) in X and Y
GHMaxDist == 3
\* Takens: largest number of samples of a signal
MaxSamples == 5
\* Takens: largest sample value (samples are 0 .. MaxValue)
MaxValue == 1
\* Takens: largest embedding dimension
MaxDim == 3
\* Takens: largest delay
MaxDelay == 2
\* Takens: largest stride
MaxStride == 2
\* gravitational waves: largest n_signals
MaxSignals == 2
\* gravitational waves: largest number of reference signals in the data file
MaxNdat == 2
\* gravitational waves: largest length of a reference signal
MaxNorig == 5
\* gravitational waves: largest downsample_factor
MaxFactor == 2
\* gravitational waves: largest n_snr_values
MaxSnr == 1
\* delay conversions: largest n_samples
MaxN == 6
\* delay conversions: largest frequency
MaxFrequency == 1
\* delay conversions: largest learned embedding dimension
MaxLearnedDim == 3
\* noise: largest number of points
MaxCloud == 2
\* noise: largest scale
MaxNoiseScale == 2
\* noise: largest ndim
MaxNdim == 3
\* barcodes: most rows a file has beyond the last one read
MaxExtraRows == 1
\* barcodes: most columns a file has beyond the three read
MaxExtraCols == 1
\* scripts: the number of series make_gravitational_waves is asked for
MaxLabels == 3
\* gravitational waves: the outcomes of randint(m) that are drawn are the
\* CutEdge least, the CutEdge greatest and the middle one
CutEdge == 1

-----------------------------------------------------------------------------
(* Arithmetic helpers *)

Min(S) == CHOOSE m \in S : \A k \in S : m <= k

Max(S) == CHOOSE m \in S : \A k \in S : m >= k

Abs(a) == IF a < 0 THEN -a ELSE a

\* floor of the square root
ISqrt(q) == CHOOSE r \in 0..q : r * r <= q /\ (r + 1) * (r + 1) > q

\* an integer literal as a fixed-point number
Num(k) == k * Scale

Idx(m) == 0..(m - 1)

-----------------------------------------------------------------------------
(* Distances: pdist, pairwise_distances, squareform *)

\* Euclidean distance of two coordinate vectors (the default metric)
Euclidean(p, q) ==
    LET RECURSIVE SumSq(_)
        SumSq(k) == IF k = 0 THEN 0
                    ELSE (p[k] - q[k]) * (p[k] - q[k]) + SumSq(k - 1)
    IN ISqrt(SumSq(Len(p)) * Scale * Scale)

\* position of the pair i < j in a condensed distance vector of m observations
CondensedIndex(m, i, j) == m * i - ((i * (i + 1)) \div 2) + (j - i - 1)

CondensedLen(m) == (m * (m - 1)) \div 2

PairOf(m, k) ==
    CHOOSE ij \in Idx(m) \X Idx(m) :
        ij[1] < ij[2] /\ CondensedIndex(m, ij[1], ij[2]) = k

\* sklearn.metrics.pairwise_distances(X): the full matrix
PairwiseDistances(pts, m) ==
    [i \in Idx(m) |-> [j \in Idx(m) |-> Euclidean(pts[i], pts[j])]]

\* the first entries of the matrix in row-major order, diagonal included
SquareformRowMajor(mat, m) ==
    [k \in Idx(CondensedLen(m)) |-> mat[k \div m][k % m]]

\* scipy.spatial.distance.squareform(D): matrix -> condensed vector
Squareform(mat, m) ==
    [k \in Idx(CondensedLen(m)) |-> mat[PairOf(m, k)[1]][PairOf(m, k)[2]]]

\* linkage(X) on observation vectors first runs pdist(X)
Pdist(pts, m) ==
    [k \in Idx(CondensedLen(m)) |->
        Euclidean(pts[PairOf(m, k)[1]], pts[PairOf(m, k)[2]])]

\* entry of a condensed vector for two different observations
CondensedAt(vec, m, i, j) ==
    IF i < j THEN vec[CondensedIndex(m, i, j)] ELSE vec[CondensedIndex(m, j, i)]

-----------------------------------------------------------------------------
(* The single linkage metric u_X of the definition *)

\* the points an eps-chain starting in S can reach
RECURSIVE Reach(_, _, _, _)
Reach(d, m, eps, S) ==
    LET T == S \cup {z \in Idx(m) : \E s \in S : d[s][z] <= eps}
    IN IF T = S THEN S ELSE Reach(d, m, eps, T)

\* only the chain x, x' itself is tried
EpsChainDirect(d, m, a, b, eps) == a = b \/ d[a][b] <= eps

\* there is an eps-chain a = x_1, ..., x_k = b with d(x_i, x_{i+1}) <= eps
EpsChain(d, m, a, b, eps) == b \in Reach(d, m, eps, {a})

\* the supremum where the definition has the infimum
UXSup(d, m, a, b) ==
    Max({eps \in {0} \cup {d[i][j] : i, j \in Idx(m)} : EpsChain(d, m, a, b, eps)})

\* u_X(a, b) = inf { eps | there is an eps-chain joining a to b }
UX(d, m, a, b) ==
    Min({eps \in {0} \cup {d[i][j] : i, j \in Idx(m)} : EpsChain(d, m, a, b, eps)})

\* u_X as a matrix
UXMatrix(d, m) == [i \in Idx(m) |-> [j \in Idx(m) |-> UX(d, m, i, j)]]

-----------------------------------------------------------------------------
(* linkage: the agglomerative algorithm, default method 'single' *)

\* complete linkage: the largest inter-point distance
ClusterDistComplete(vec, m, A, B) ==
    Max({CondensedAt(vec, m, i, j) : <<i, j>> \in A \X B})

\* single linkage: the least inter-point distance of two clusters
ClusterDist(vec, m, A, B) ==
    Min({CondensedAt(vec, m, i, j) : <<i, j>> \in A \X B})

Singletons(m) == [i \in Idx(m) |-> {i}]

\* the merge heights of a linkage matrix (its third column), as a set of values
Heights(Z) == {Z[r][3] : r \in 1..Len(Z)}

\* the number of merges a linkage matrix has at height h
HeightCount(Z, h) == Cardinality({r \in 1..Len(Z) : Z[r][3] = h})

\* the number of merges that produce a cluster of s observations (fourth column)
SizeCount(Z, s) == Cardinality({r \in 1..Len(Z) : Z[r][4] = s})

\* the row at which observations a and b first fall in one cluster (0: not yet)
FirstRow(Z, mem, m, a, b) ==
    LET rows == {r \in 1..Len(Z) : {a, b} \subseteq mem[m + r - 1]}
    IN IF rows = {} THEN 0 ELSE Min(rows)

\* the pairs of clusters at least distance: the candidates of the next merge
MinimalPairs(vec, m, mem, act) ==
    {p \in act \X act :
        /\ p[1] < p[2]
        /\ \A q \in act \X act :
              q[1] < q[2] => ClusterDist(vec, m, mem[p[1]], mem[p[2]])
                               <= ClusterDist(vec, m, mem[q[1]], mem[q[2]])}

\* the state of linkage after merging the clusters p[1] and p[2]: a new row
\* <<a, b, height, size>> and a new cluster with the next free id
MergeStep(vec, m, st, p) ==
    [linked  |-> Append(st.linked,
                    << p[1], p[2],
                       ClusterDist(vec, m, st.members[p[1]], st.members[p[2]]),
                       Cardinality(st.members[p[1]] \cup st.members[p[2]]) >>),
     members |-> st.members @@
                    ((m + Len(st.linked)) :> (st.members[p[1]] \cup st.members[p[2]])),
     active  |-> (st.active \ {p[1], p[2]}) \cup {m + Len(st.linked)}]

\* linkage(y): merge until one cluster is left
RECURSIVE LinkageFrom(_, _, _)
LinkageFrom(vec, m, st) ==
    IF Cardinality(st.active) <= 1 THEN st
    ELSE LinkageFrom(vec, m,
            MergeStep(vec, m, st,
                CHOOSE p \in MinimalPairs(vec, m, st.members, st.active) : TRUE))

Linkage(vec, m) ==
    LinkageFrom(vec, m, [linked |-> <<>>, members |-> Singletons(m), active |-> Idx(m)])

\* the heights at which two observations are first joined, as a matrix
Cophenet(st, m) ==
    [i \in Idx(m) |-> [j \in Idx(m) |->
        IF i = j THEN 0 ELSE st.linked[FirstRow(st.linked, st.members, m, i, j)][3]]]

-----------------------------------------------------------------------------
(* The data of the notebook *)

Example1X == [i \in Idx(6) |-> <<(<<0, 1, 3, 4, 7, 8>>)[i + 1]>>]

Example2X ==
    [i \in Idx(6) |->
        (<< <<0, 0>>, <<2, 0>>, <<3, 0>>, <<0, 3>>, <<1, 3>>, <<3, 3>> >>)[i + 1]]

\* the literal with the entry for the pair (2, 3) mistyped
DLiteralTypo ==
    [i \in Idx(4) |-> [j \in Idx(4) |->
        Num((<< <<0, 1, 2, 3>>,
                <<1, 0, 3, 4>>,
                <<2, 3, 0, 6>>,
                <<3, 4, 6, 0>> >>)[i + 1][j + 1])]]

\* the distance matrix of the points 0, 1, 2, 3 of the real line
DLiteralLine ==
    [i \in Idx(4) |-> [j \in Idx(4) |->
        Num((<< <<0, 1, 2, 3>>,
                <<1, 0, 1, 2>>,
                <<2, 1, 0, 1>>,
                <<3, 2, 1, 0>> >>)[i + 1][j + 1])]]

DLiteral ==
    [i \in Idx(4) |-> [j \in Idx(4) |->
        Num((<< <<0, 1, 2, 3>>,
                <<1, 0, 3, 4>>,
                <<2, 3, 0, 5>>,
                <<3, 4, 5, 0>> >>)[i + 1][j + 1])]]

\* the G.add_edge calls, in order
EdgeList ==
    << [u |-> 0, v |-> 1, weight |-> Num(1)],
       [u |-> 0, v |-> 2, weight |-> Num(2)],
       [u |-> 0, v |-> 3, weight |-> Num(3)] >>

-----------------------------------------------------------------------------
(* Freely chosen inputs ("define your own") *)

IsMetric(d, m) ==
    /\ \A i \in Idx(m) : d[i][i] = 0
    /\ \A i, j \in Idx(m) : i # j => d[i][j] > 0 /\ d[i][j] = d[j][i]
    /\ \A i, j, k \in Idx(m) : d[i][k] <= d[i][j] + d[j][k]

\* a symmetric matrix from its condensed vector
FromCondensed(vec, m) ==
    [i \in Idx(m) |-> [j \in Idx(m) |->
        IF i = j THEN 0 ELSE CondensedAt(vec, m, i, j)]]

MetricsOn(m, maxd) ==
    {d \in {FromCondensed(vec, m) :
                vec \in [Idx(CondensedLen(m)) -> {Num(k) : k \in 1..maxd}]} :
        IsMetric(d, m)}

OwnMatrices == MetricsOn(NPts, MaxDist)

Grid == (0..MaxCoord) \X (0..MaxCoord)

Before(p, q) == p[1] < q[1] \/ (p[1] = q[1] /\ p[2] < q[2])

\* point clouds of NCloud different grid points, rows in lexicographic order
OwnClouds ==
    {c \in [Idx(NCloud) -> Grid] :
        \A i, j \in Idx(NCloud) : i < j => Before(c[i], c[j])}

-----------------------------------------------------------------------------
(* Euclidean and non-Euclidean distance matrices *)

\* the integer that the number x = Num(k) stands for
Whole(x) == x \div Scale

\* twice the Gram matrix of the points 1..m-1 seen from point 0:
\* 2 <x_i - x_0, x_j - x_0> = d(0,i)^2 + d(0,j)^2 - d(i,j)^2
Gram2(d, m) ==
    [i \in 1..(m - 1) |-> [j \in 1..(m - 1) |->
        Whole(d[0][i]) * Whole(d[0][i]) + Whole(d[0][j]) * Whole(d[0][j])
            - Whole(d[i][j]) * Whole(d[i][j])]]

\* the elements of a set of integers in increasing order
RECURSIVE Sorted(_)
Sorted(S) == IF S = {} THEN <<>> ELSE <<Min(S)>> \o Sorted(S \ {Min(S)})

\* a sequence without its k-th element
Without(seq, k) == [i \in 1..(Len(seq) - 1) |-> IF i < k THEN seq[i] ELSE seq[i + 1]]

\* the determinant of the rows and columns of M listed in rows and cols, by
\* expansion along the first row; DetFrom sums the terms k..Len(cols)
RECURSIVE Det(_, _, _), DetFrom(_, _, _, _)
DetFrom(M, rows, cols, k) ==
    IF k > Len(cols) THEN 0
    ELSE (IF k % 2 = 1 THEN 1 ELSE 0 - 1)
             * M[rows[1]][cols[k]] * Det(M, Tail(rows), Without(cols, k))
         + DetFrom(M, rows, cols, k + 1)

Det(M, rows, cols) == IF rows = <<>> THEN 1 ELSE DetFrom(M, rows, cols, 1)

\* a symmetric matrix is positive semidefinite iff no principal minor is negative
IsPSD(M, idx) ==
    \A S \in SUBSET idx : Det(M, Sorted(S), Sorted(S)) >= 0

\* d is the distance matrix of m points of some R^n iff the Gram matrix is
\* positive semidefinite
IsEuclidean(d, m) == IsPSD(Gram2(d, m), 1..(m - 1))

-----------------------------------------------------------------------------
(* The weighted graph G and its geodesic metric *)

Nodes(g) == {e.u : e \in g} \cup {e.v : e \in g}

\* larger than every path length
Infinity(g) == 1 +
    LET RECURSIVE Total(_)
        Total(S) == IF S = {} THEN 0
                    ELSE LET e == CHOOSE e \in S : TRUE
                         IN e.weight + Total(S \ {e})
    IN Total(g)

\* every edge counts 1: the hop distance
EdgeLengthUnweighted(g, a, b) ==
    IF a = b THEN 0
    ELSE IF \E e \in g : {e.u, e.v} = {a, b} THEN Num(1) ELSE Infinity(g)

\* length of the edge a-b (undirected), Infinity when there is none
EdgeLength(g, a, b) ==
    IF a = b THEN 0
    ELSE IF \E e \in g : {e.u, e.v} = {a, b}
         THEN (CHOOSE e \in g : {e.u, e.v} = {a, b}).weight
         ELSE Infinity(g)

\* nx.floyd_warshall_numpy(G): all shortest weighted path lengths
FloydWarshall(g, m) ==
    LET RECURSIVE FW(_)
        FW(k) ==
            IF k = 0
            THEN [i \in Idx(m) |-> [j \in Idx(m) |-> EdgeLength(g, i, j)]]
            ELSE LET prev == FW(k - 1)
                 IN [i \in Idx(m) |-> [j \in Idx(m) |->
                        IF prev[i][k - 1] + prev[k - 1][j] < prev[i][j]
                        THEN prev[i][k - 1] + prev[k - 1][j]
                        ELSE prev[i][j]]]
    IN FW(m)

-----------------------------------------------------------------------------
(* Notebook 02: the cells as a state machine *)

PointCells == {"Example1", "Example2", "OwnPoints"}

\* the metric d_X of the space being clustered: the Euclidean distances pdist
\* computed from the points, or the matrix D
dX == IF cell \in PointCells THEN FromCondensed(y, n) ELSE D

LinkageDone == Cardinality(active) = 1

\* start linkage on a condensed vector of m observations
StartLinkage(vec, m) ==
    /\ y' = vec
    /\ n' = m
    /\ members' = Singletons(m)
    /\ active' = Idx(m)
    /\ linked' = <<>>

\* Example 1: X = {0,1,3,4,7,8}; linkage(X)
InitExample1 ==
    /\ cell = "Example1"
    /\ X = Example1X
    /\ D = <<>>
    /\ y = Pdist(Example1X, 6)
    /\ n = 6

\* own data: a point cloud, linkage(X)
InitOwnPoints ==
    /\ cell = "OwnPoints"
    /\ X \in OwnClouds
    /\ D = <<>>
    /\ y = Pdist(X, NCloud)
    /\ n = NCloud

\* own data: a distance matrix, linkage(squareform(D))
InitOwnMatrix ==
    /\ cell = "OwnMatrix"
    /\ X = <<>>
    /\ D \in OwnMatrices
    /\ y = Squareform(D, NPts)
    /\ n = NPts

InitSLHC ==
    /\ (InitExample1 \/ InitOwnPoints \/ InitOwnMatrix)
    /\ members = Singletons(n)
    /\ active = Idx(n)
    /\ linked = <<>>
    /\ plots = <<>>
    /\ G = {}

\* one step of linkage: merge two clusters at least inter-point distance
Merge ==
    /\ ~LinkageDone
    /\ \E p \in MinimalPairs(y, n, members, active) :
          LET st == MergeStep(y, n,
                      [linked |-> linked, members |-> members, active |-> active], p)
          IN /\ linked' = st.linked
             /\ members' = st.members
             /\ active' = st.active
    /\ UNCHANGED <<cell, X, D, y, n, plots, G>>

\* the number of dendrograms shown before the one of this cell
PlotsBefore(c) ==
    CASE c = "Example2" -> 1
      [] c = "Example3" -> 2
      [] c = "Example3D" -> 3
      [] OTHER -> 0

\* dendrogram(linked): the figure of the finished linkage
Dendrogram ==
    /\ cell # "Graph"
    /\ LinkageDone
    /\ Len(plots) = PlotsBefore(cell)
    /\ plots' = Append(plots, linked)
    /\ UNCHANGED <<cell, X, D, y, n, members, active, linked, G>>

\* Example 2: X = six points of the plane; linkage(X)
RunExample2 ==
    /\ cell = "Example1"
    /\ Len(plots) = 1
    /\ cell' = "Example2"
    /\ X' = Example2X
    /\ StartLinkage(Pdist(Example2X, 6), 6)
    /\ UNCHANGED <<D, plots, G>>

\* Example 3: D = pairwise_distances(X); linkage(ssd.squareform(D))
RunExample3 ==
    /\ cell = "Example2"
    /\ Len(plots) = 2
    /\ cell' = "Example3"
    /\ D' = PairwiseDistances(X, 6)
    /\ StartLinkage(Squareform(PairwiseDistances(X, 6), 6), 6)
    /\ UNCHANGED <<X, plots, G>>

\* D = np.array([[0,1,2,3],...]); linkage(ssd.squareform(D))
RunExample3D ==
    /\ cell = "Example3"
    /\ Len(plots) = 3
    /\ cell' = "Example3D"
    /\ D' = DLiteral
    /\ StartLinkage(Squareform(DLiteral, 4), 4)
    /\ UNCHANGED <<X, plots, G>>

\* G = nx.Graph()
NewGraph ==
    /\ cell = "Example3D"
    /\ Len(plots) = 4
    /\ cell' = "Graph"
    /\ G' = {}
    /\ UNCHANGED <<X, D, y, n, members, active, linked, plots>>

\* G.add_edge(u, v, weight = w), the three calls in order
AddEdge ==
    /\ cell = "Graph"
    /\ Cardinality(G) < Len(EdgeList)
    /\ G' = G \cup {EdgeList[Cardinality(G) + 1]}
    /\ UNCHANGED <<cell, X, D, y, n, members, active, linked, plots>>

NextSLHC ==
    \/ Merge
    \/ Dendrogram
    \/ RunExample2
    \/ RunExample3
    \/ RunExample3D
    \/ NewGraph
    \/ AddEdge

\* the cells of the other parts are not run
IdleSLHC ==
    /\ cell = "Idle"
    /\ X = <<>>
    /\ D = <<>>
    /\ y = <<>>
    /\ n = 0
    /\ members = <<>>
    /\ active = {}
    /\ linked = <<>>
    /\ plots = <<>>
    /\ G = {}

IdleGH ==
    /\ spaceX = <<>>
    /\ spaceY = <<>>
    /\ ultraX = <<>>
    /\ ultraY = <<>>

IdleTakens ==
    /\ signal = <<>>
    /\ dimension = 0
    /\ time_delay = 0
    /\ stride = 0
    /\ takensPc = "Idle"
    /\ embedded_signal = <<>>
    /\ projection_coord = 0
    /\ projected_signal = <<>>

IdleGW ==
    /\ n_signals = 0
    /\ downsample_factor = 0
    /\ n_snr_values = 0
    /\ Norig = 0
    /\ Ndat = 0
    /\ ncoeff = <<>>
    /\ jj = 0
    /\ noisy_signals = <<>>
    /\ gw_signals = <<>>
    /\ labels = <<>>
    /\ kflag = 0
    /\ gwPc = "Idle"

IdleDelay ==
    /\ nSamples = 0
    /\ frequency = 0
    /\ time_delay_ = 0
    /\ dimension_ = 0
    /\ tau_continuous = <<>>
    /\ check_quantity = <<>>
    /\ rediscretised = 0 - 1
    /\ delayPc = "Idle"

IdleNoise ==
    /\ noise_N = 0
    /\ noise_scale = 0
    /\ ndim = 0
    /\ point_cloud = <<>>
    /\ noisePc = "Idle"

IdleCSV ==
    /\ file_rows = 0
    /\ file_cols = 0
    /\ barcodes = <<>>
    /\ dem_barcodes = <<>>
    /\ rep_barcodes = <<>>
    /\ all_barcodes = <<>>
    /\ y_labels = <<>>
    /\ csv_j = 0
    /\ csvPc = "Idle"

IdleScript ==
    /\ notebook = "none"
    /\ cell_index = 0
    /\ bound = {}
    /\ bound_at = <<>>
    /\ last_reads = <<>>
    /\ random_sample = 0 - 1
    /\ shown = <<>>
    /\ script_labels = <<>>
    /\ background_idx = 0 - 1
    /\ signal_idx = 0 - 1
    /\ scriptPc = "Idle"

Init == InitSLHC /\ IdleGH /\ IdleTakens /\ IdleGW /\ IdleDelay /\ IdleNoise /\ IdleCSV /\ IdleScript

Next == NextSLHC /\ UNCHANGED <<ghVars, takensVars, gwVars, delayVars, noiseVars, csvVars, scriptVars>>

Spec == Init /\ [][Next]_vars

-----------------------------------------------------------------------------
(* Gromov-Hausdorff stability of SLHC *)

\* the map SLHC : (X, d_X) |-> (X, u_X) the clustering algorithm defines
SLHC(d, m) == Cophenet(Linkage(Squareform(d, m), m), m)

\* the correspondences between X and Y: relations with both projections onto
Correspondences(nx, ny) ==
    {R \in SUBSET (Idx(nx) \X Idx(ny)) :
        /\ \A a \in Idx(nx) : \E b \in Idx(ny) : <<a, b>> \in R
        /\ \A b \in Idx(ny) : \E a \in Idx(nx) : <<a, b>> \in R}

\* dis(R) = max |d_X(x, x') - d_Y(y, y')| over (x, y), (x', y') in R
Distortion(dx, dy, R) ==
    Max({Abs(dx[p[1]][q[1]] - dy[p[2]][q[2]]) : <<p, q>> \in R \X R})

\* 2 * d_GH: the least distortion of a correspondence
TwiceGH(dx, nx, dy, ny) ==
    Min({Distortion(dx, dy, R) : R \in Correspondences(nx, ny)})

\* the sizes of X and Y: X has at least three points and Y at least two, and
\* not more than X (d_GH is symmetric)
GHSizes ==
    {s \in (3..GHSize) \X (2..GHSize) : s[2] <= s[1] /\ s[1] + s[2] <= GHSize}

InitSpaces ==
    /\ \E s \in GHSizes :
          /\ spaceX \in {[n |-> s[1], d |-> d] : d \in MetricsOn(s[1], GHMaxDist)}
          /\ spaceY \in {[n |-> s[2], d |-> d] : d \in MetricsOn(s[2], GHMaxDist)}
    /\ ultraX = <<>>
    /\ ultraY = <<>>

\* SLHC applied to (X, d_X)
ClusterX ==
    /\ ultraX = <<>>
    /\ ultraX' = SLHC(spaceX.d, spaceX.n)
    /\ UNCHANGED <<spaceX, spaceY, ultraY, slhcVars, takensVars, gwVars, delayVars, noiseVars, csvVars, scriptVars>>

\* SLHC applied to (Y, d_Y)
ClusterY ==
    /\ ultraY = <<>>
    /\ ultraY' = SLHC(spaceY.d, spaceY.n)
    /\ UNCHANGED <<spaceX, spaceY, ultraX, slhcVars, takensVars, gwVars, delayVars, noiseVars, csvVars, scriptVars>>

NextGH == ClusterX \/ ClusterY

InitGH == InitSpaces /\ IdleSLHC /\ IdleTakens /\ IdleGW /\ IdleDelay /\ IdleNoise /\ IdleCSV /\ IdleScript

SpecGH == InitGH /\ [][NextGH]_vars

-----------------------------------------------------------------------------
(* Takens notebook: SingleTakensEmbedding(parameters_type = 'fixed') *)

\* reading position i of an array of m entries
InRange(i, m) == i \in Idx(m)

\* what a read outside the array leaves in place of a sample
IndexError == 0 - 1

\* the window is taken one delay too long
NPointsOffByOne(m, tau, d, str) == ((m - tau * d - 1) \div str) + 1

\* the number of windows that fit: divmod(n - tau*(d-1) - 1, stride)[0] + 1
NPoints(m, tau, d, str) == ((m - tau * (d - 1) - 1) \div str) + 1

\* the windows are aligned to the end of the signal
Offset(m, tau, d, str) == (m - tau * (d - 1) - 1) % str

\* delay and stride exchanged
EmbeddingIndexSwapped(i, j, tau, str, off) == i * tau + j * str + off

\* the position read for coordinate j of point i: SW f(t)_j = f(t + j*tau)
EmbeddingIndex(i, j, tau, str, off) == j * tau + i * str + off

\* embedder.fit_transform(signal)
TimeDelayEmbedding(sig, m, tau, d, str) ==
    [i \in Idx(NPoints(m, tau, d, str)) |->
        [j \in Idx(d) |->
            LET k == EmbeddingIndex(i, j, tau, str, Offset(m, tau, d, str))
            IN IF InRange(k, m) THEN sig[k] ELSE IndexError]]

n_samples == Cardinality(DOMAIN signal)

Signals ==
    UNION {[Idx(m) -> 0..MaxValue] : m \in 1..MaxSamples}

InitSignal ==
    /\ signal \in Signals
    /\ dimension \in 1..MaxDim
    /\ time_delay \in 1..MaxDelay
    /\ stride \in 1..MaxStride
    /\ takensPc = "start"
    /\ embedded_signal = <<>>
    /\ projection_coord = 0
    /\ projected_signal = <<>>

\* embedded_signal = embedder.fit_transform(signal)
Embed ==
    /\ takensPc = "start"
    /\ IF NPoints(n_samples, time_delay, dimension, stride) <= 0
       THEN /\ takensPc' = "ValueError"
            /\ UNCHANGED embedded_signal
       ELSE /\ takensPc' = "embedded"
            /\ embedded_signal' =
                  TimeDelayEmbedding(signal, n_samples, time_delay, dimension, stride)
    /\ UNCHANGED <<signal, dimension, time_delay, stride, projection_coord,
                   projected_signal, slhcVars, ghVars, gwVars, delayVars, noiseVars, csvVars, scriptVars>>

\* projected_signal = embedded_signal[:, projection_coord]
Project ==
    /\ takensPc = "embedded"
    /\ \E j \in Idx(dimension) :
          /\ projection_coord' = j
          /\ projected_signal' =
                [i \in DOMAIN embedded_signal |-> embedded_signal[i][j]]
    /\ takensPc' = "projected"
    /\ UNCHANGED <<signal, dimension, time_delay, stride, embedded_signal,
                   slhcVars, ghVars, gwVars, delayVars, noiseVars, csvVars, scriptVars>>

NextTakens == Embed \/ Project

InitTakens == InitSignal /\ IdleSLHC /\ IdleGH /\ IdleGW /\ IdleDelay /\ IdleNoise /\ IdleCSV /\ IdleScript

SpecTakens == InitTakens /\ [][NextTakens]_vars

-----------------------------------------------------------------------------
(* Takens notebook: make_gravitational_waves *)

\* number of padding points added to a series
Npad == 500

\* A series is a list of blocks of consecutive samples.  A block records what
\* its samples are ("pad": scaled noise of padrand, "noise", "wave": the
\* reference signal, "wave+noise"), how many there are, the reference signal
\* (ref, or -1) and the noise coefficient (kr, or -1).
Block(kind, len, ref, kr) == [kind |-> kind, len |-> len, ref |-> ref, kr |-> kr]

\* the outcomes of np.random.randint(m) the model draws
Randint(m) ==
    {c \in Idx(m) : c < CutEdge \/ c >= m - CutEdge \/ c = m \div 2}

\* len(range(0, Norig, downsample_factor))
DownsampledLen(len, factor) == (len + factor - 1) \div factor

\* N = int(Norig / downsample_factor)
NoiseLen(len, factor) == len \div factor

\* the length of a + b for numpy arrays of lengths la and lb (-1: the shapes
\* cannot be broadcast together, ValueError)
BroadcastLen(la, lb) ==
    IF la = lb THEN la
    ELSE IF la = 1 THEN lb
    ELSE IF lb = 1 THEN la
    ELSE 0 - 1

\* the reference signal of series j: gw["data"][j % Ndat]
RefIndex(j, m) == j % m

\* second padding of the full length n
PadrandFullTail(V, m, kr, cut) ==
    << Block("pad", cut, 0 - 1, kr), V, Block("pad", m, 0 - 1, kr) >>

\* padrand(V, n, kr) with cut = np.random.randint(n):
\* np.concatenate((rand1 * kr, V, rand2 * kr))
Padrand(V, m, kr, cut) ==
    << Block("pad", cut, 0 - 1, kr), V, Block("pad", m - cut, 0 - 1, kr) >>

\* len(series)
RECURSIVE SeriesLen(_)
SeriesLen(series) ==
    IF series = <<>> THEN 0 ELSE Head(series).len + SeriesLen(Tail(series))

InitWaves ==
    /\ n_signals \in 0..MaxSignals
    /\ downsample_factor \in 1..MaxFactor
    /\ n_snr_values \in 1..MaxSnr
    /\ Norig \in 1..MaxNorig
    /\ Ndat \in 1..MaxNdat
    /\ ncoeff = [j \in Idx(n_signals) |-> j % n_snr_values]
    /\ jj = 0
    /\ noisy_signals = <<>>
    /\ gw_signals = <<>>
    /\ labels = [j \in Idx(n_signals) |-> 0]
    /\ kflag = 0
    /\ gwPc = "loop"

\* one pass of "for j in range(n_signals)"
Iterate ==
    /\ gwPc = "loop"
    /\ jj < n_signals
    /\ \E sigp \in {0, 1}, cut \in Randint(Npad) :
        LET ref == RefIndex(jj, Ndat)
            sig == Block("wave", DownsampledLen(Norig, downsample_factor), ref, 0 - 1)
            noise == Block("noise", NoiseLen(Norig, downsample_factor), 0 - 1, ncoeff[jj])
            sum == Block("wave+noise", BroadcastLen(sig.len, noise.len), ref, ncoeff[jj])
        IN IF ~InRange(ref, Ndat)
           THEN /\ gwPc' = "IndexError"
                /\ UNCHANGED <<jj, noisy_signals, gw_signals, labels, kflag>>
           ELSE /\ labels' = [labels EXCEPT ![jj] = sigp]
                /\ IF sigp = 1 /\ sum.len < 0
                   THEN /\ gwPc' = "ValueError"
                        /\ UNCHANGED <<jj, noisy_signals, gw_signals, kflag>>
                   ELSE /\ noisy_signals' = Append(noisy_signals,
                              Padrand(IF sigp = 1 THEN sum ELSE noise,
                                      Npad, ncoeff[jj], cut))
                        /\ gw_signals' = Append(gw_signals, sig)
                        /\ kflag' = IF sigp = 1 THEN 1 ELSE kflag
                        /\ jj' = jj + 1
                        /\ UNCHANGED gwPc
    /\ UNCHANGED <<n_signals, downsample_factor, n_snr_values, Norig, Ndat, ncoeff,
                   slhcVars, ghVars, takensVars, delayVars, noiseVars, csvVars, scriptVars>>

\* return noisy_signals, gw_signals, labels
Return ==
    /\ gwPc = "loop"
    /\ jj = n_signals
    /\ gwPc' = "returned"
    /\ UNCHANGED <<n_signals, downsample_factor, n_snr_values, Norig, Ndat, ncoeff,
                   jj, noisy_signals, gw_signals, labels, kflag,
                   slhcVars, ghVars, takensVars, delayVars, noiseVars, csvVars, scriptVars>>

NextGW == Iterate \/ Return

InitGW == InitWaves /\ IdleSLHC /\ IdleGH /\ IdleTakens /\ IdleDelay /\ IdleNoise /\ IdleCSV /\ IdleScript

SpecGW == InitGW /\ [][NextGW]_vars

-----------------------------------------------------------------------------
(* Takens notebook: discrete and continuous time delays *)

\* the rational number a / b; a continuous delay is kept as its multiple of pi
Rat(a, b) == [num |-> a, den |-> b]

\* rediscretised before the conversion has run
NotComputed == 0 - 1

\* int(x) for a float x computed for the exact nonnegative value q: the floor,
\* and, when q is a whole number, also the one below it (x may be rounded to
\* just under q)
IntOutcomes(q) ==
    {q.num \div q.den}
        \cup (IF q.num % q.den = 0 /\ q.num \div q.den >= 1
              THEN {(q.num \div q.den) - 1} ELSE {})

\* tau*np.pi/n_samples, in units of pi
ToContinuous(tau, m) == Rat(tau, m)

\* tau*n_samples/(2*np.pi) for tau = t * pi
ToDiscrete(t, m) == Rat(t.num * m, t.den * 2)

\* frequency*tau_continuous*d/np.pi for tau_continuous = t * pi
CheckQuantity(omega, t, dd) == Rat(omega * t.num * dd, t.den)

\* omega * d * tau = 0 (mod pi) for the continuous delay tau = k * 2 pi / m that
\* the discrete delay k = tau * m / (2 pi) stands for
Optimal(omega, dd, k, m) == (2 * omega * dd * k) % m = 0

InitFitted ==
    /\ nSamples \in 1..MaxN
    /\ frequency \in 1..MaxFrequency
    /\ time_delay_ \in 1..nSamples
    /\ dimension_ \in 1..MaxLearnedDim
    /\ tau_continuous = <<>>
    /\ check_quantity = <<>>
    /\ rediscretised = NotComputed
    /\ delayPc = "fitted"

\* d = embedder.dimension_; tau = embedder.time_delay_;
\* tau_continuous = tau*np.pi/n_samples
ConvertToContinuous ==
    /\ delayPc = "fitted"
    /\ tau_continuous' = ToContinuous(time_delay_, nSamples)
    /\ delayPc' = "converted"
    /\ UNCHANGED <<nSamples, frequency, time_delay_, dimension_, check_quantity,
                   rediscretised, slhcVars, ghVars, takensVars, gwVars, noiseVars, csvVars, scriptVars>>

\* frequency*tau_continuous*d/np.pi
ComputeQuantity ==
    /\ delayPc = "converted"
    /\ check_quantity = <<>>
    /\ check_quantity' = CheckQuantity(frequency, tau_continuous, dimension_)
    /\ UNCHANGED <<nSamples, frequency, time_delay_, dimension_, tau_continuous,
                   rediscretised, delayPc, slhcVars, ghVars, takensVars, gwVars, noiseVars, csvVars, scriptVars>>

\* time_delay = int(tau*n_samples/(2*np.pi)) for tau = tau_continuous
Discretise ==
    /\ delayPc = "converted"
    /\ rediscretised = NotComputed
    /\ rediscretised' \in IntOutcomes(ToDiscrete(tau_continuous, nSamples))
    /\ UNCHANGED <<nSamples, frequency, time_delay_, dimension_, tau_continuous,
                   check_quantity, delayPc, slhcVars, ghVars, takensVars, gwVars, noiseVars, csvVars, scriptVars>>

NextDelay == ConvertToContinuous \/ ComputeQuantity \/ Discretise

InitDelay == InitFitted /\ IdleSLHC /\ IdleGH /\ IdleTakens /\ IdleGW /\ IdleNoise /\ IdleCSV /\ IdleScript

SpecDelay == InitDelay /\ [][NextDelay]_vars

-----------------------------------------------------------------------------
(* Notebook 06: noise(N, scale, ndim) *)

\* the outcomes of np.random.random() that are drawn, in units of 1/Scale: the
\* least value 0 and the greatest value below 1
RandomOutcomes == {0, Scale - 1}

\* the arrays np.random.random(shape) can return, for shape = (rows, cols)
RandomArrays(rows, cols) == [Idx(rows) -> [Idx(cols) -> RandomOutcomes]]

\* def noise(N, scale, ndim=2): return scale * np.random.random((N, 2))
Noise(count, sc, nd, random) ==
    [i \in DOMAIN random |-> [c \in DOMAIN random[i] |-> sc * random[i][c]]]

InitNoiseCall ==
    /\ noise_N \in 0..MaxCloud
    /\ noise_scale \in 1..MaxNoiseScale
    /\ ndim \in 1..MaxNdim
    /\ point_cloud = <<>>
    /\ noisePc = "called"

\* noise(N, scale, ndim)
CallNoise ==
    /\ noisePc = "called"
    /\ \E random \in RandomArrays(noise_N, 2) :
          point_cloud' = Noise(noise_N, noise_scale, ndim, random)
    /\ noisePc' = "returned"
    /\ UNCHANGED <<noise_N, noise_scale, ndim,
                   slhcVars, ghVars, takensVars, gwVars, delayVars, csvVars, scriptVars>>

NextNoise == CallNoise

InitNoise == InitNoiseCall /\ IdleSLHC /\ IdleGH /\ IdleTakens /\ IdleGW /\ IdleDelay /\ IdleCSV /\ IdleScript

SpecNoise == InitNoise /\ [][NextNoise]_vars

-----------------------------------------------------------------------------
(* Notebook 06: the districting barcodes read from six CSV files *)

\* for j in range(6), for k in range(6)
NFiles == 6
\* for j in range(1,243)
DemFirst == 1
DemStop == 243
\* for j in range(243,431)
RepFirst == 243
RepStop == 431
\* bar = barcodes[k][j,1:3]
BarFrom == 1
BarTo == 3

\* np.genfromtxt("data/50biased_" + str(j) + ".csv", delimiter=','): the array
\* of file j; its entry in row r and column c is written <<j, r, c>>
File(j, rows, cols) == [name |-> j, rows |-> rows, cols |-> cols]

Entry(file, r, c) == <<file.name, r, c>>

\* the slice starting with column 0
BarFromColumnZero(file, j) ==
    [c \in Idx(Min({BarTo - BarFrom, file.cols})) |-> Entry(file, j, c)]

\* file[j, 1:3]: the columns 1 and 2 of row j (a slice is cut at the last column)
Bar(file, j) ==
    [c \in Idx(Max({0, Min({BarTo, file.cols}) - BarFrom})) |-> Entry(file, j, BarFrom + c)]

\* np.array(barcode) after "for k in range(6): barcode.append(barcodes[k][j,1:3])"
Barcode(files, j) == [k \in Idx(NFiles) |-> Bar(files[k + 1], j)]

\* [v] * count
Repeat(v, count) == [i \in 1..count |-> v]

InitFiles ==
    /\ file_rows \in (RepStop - 1)..(RepStop + MaxExtraRows)
    /\ file_cols \in BarTo..(BarTo + MaxExtraCols)
    /\ barcodes = <<>>
    /\ dem_barcodes = <<>>
    /\ rep_barcodes = <<>>
    /\ all_barcodes = <<>>
    /\ y_labels = <<>>
    /\ csv_j = 0
    /\ csvPc = "load"

\* one pass of "for j in range(6)": barcodes.append(file)
LoadFile ==
    /\ csvPc = "load"
    /\ barcodes' = Append(barcodes, File(csv_j, file_rows, file_cols))
    /\ IF csv_j + 1 < NFiles
       THEN csv_j' = csv_j + 1 /\ UNCHANGED csvPc
       ELSE csv_j' = DemFirst /\ csvPc' = "dem"
    /\ UNCHANGED <<file_rows, file_cols, dem_barcodes, rep_barcodes, all_barcodes,
                   y_labels, slhcVars, ghVars, takensVars, gwVars, delayVars, noiseVars, scriptVars>>

\* one pass of "for j in range(1,243)": dem_barcodes.append(np.array(barcode))
DemBarcode ==
    /\ csvPc = "dem"
    /\ IF ~InRange(csv_j, file_rows)
       THEN csvPc' = "IndexError" /\ UNCHANGED <<dem_barcodes, csv_j>>
       ELSE /\ dem_barcodes' = Append(dem_barcodes, Barcode(barcodes, csv_j))
            /\ IF csv_j + 1 < DemStop
               THEN csv_j' = csv_j + 1 /\ UNCHANGED csvPc
               ELSE csv_j' = RepFirst /\ csvPc' = "rep"
    /\ UNCHANGED <<file_rows, file_cols, barcodes, rep_barcodes, all_barcodes,
                   y_labels, slhcVars, ghVars, takensVars, gwVars, delayVars, noiseVars, scriptVars>>

\* one pass of "for j in range(243,431)": rep_barcodes.append(np.array(barcode))
RepBarcode ==
    /\ csvPc = "rep"
    /\ IF ~InRange(csv_j, file_rows)
       THEN csvPc' = "IndexError" /\ UNCHANGED <<rep_barcodes, csv_j>>
       ELSE /\ rep_barcodes' = Append(rep_barcodes, Barcode(barcodes, csv_j))
            /\ IF csv_j + 1 < RepStop
               THEN csv_j' = csv_j + 1 /\ UNCHANGED csvPc
               ELSE UNCHANGED csv_j /\ csvPc' = "combine"
    /\ UNCHANGED <<file_rows, file_cols, barcodes, dem_barcodes, all_barcodes,
                   y_labels, slhcVars, ghVars, takensVars, gwVars, delayVars, noiseVars, scriptVars>>

\* all_barcodes = dem_barcodes + rep_barcodes
Combine ==
    /\ csvPc = "combine"
    /\ all_barcodes' = dem_barcodes \o rep_barcodes
    /\ csvPc' = "labels"
    /\ UNCHANGED <<file_rows, file_cols, barcodes, dem_barcodes, rep_barcodes,
                   y_labels, csv_j, slhcVars, ghVars, takensVars, gwVars, delayVars,
                   noiseVars, scriptVars>>

\* y = [0]*len(dem_barcodes)+[1]*len(rep_barcodes)
RecordLabels ==
    /\ csvPc = "labels"
    /\ y_labels' = Repeat(0, Len(dem_barcodes)) \o Repeat(1, Len(rep_barcodes))
    /\ csvPc' = "done"
    /\ UNCHANGED <<file_rows, file_cols, barcodes, dem_barcodes, rep_barcodes,
                   all_barcodes, csv_j, slhcVars, ghVars, takensVars, gwVars, delayVars,
                   noiseVars, scriptVars>>

NextCSV == LoadFile \/ DemBarcode \/ RepBarcode \/ Combine \/ RecordLabels

InitCSV ==
    /\ InitFiles /\ IdleSLHC /\ IdleGH /\ IdleTakens /\ IdleGW /\ IdleDelay
    /\ IdleNoise /\ IdleScript

SpecCSV == InitCSV /\ [][NextCSV]_vars

-----------------------------------------------------------------------------
(* The notebooks as linear scripts *)

\* total_samples = 200
TotalSamples == 200
\* samples_per_class = int(total_samples / 2)
SamplesPerClass == TotalSamples \div 2
\* random_sample = np.random.randint(50)
RandomSampleBound == 50

\* A code cell: its first and last source line, the names it reads that it has
\* not bound itself before the read (a function that is called reads the
\* global names of its body at the call), and the names it binds.  kind tells
\* the cells with a modelled effect on data; total and split are the length
\* of the list a "plot_pair" cell indexes and the number of its leading
\* entries of the first class.
\* the code cells of notebook 02, in order
Cells02 ==
    << [first |-> 16, last |-> 18, kind |-> "plain",
        total |-> 0, split |-> 0,
        needs |-> {},
        binds |-> {"np", "plt", "nx"}],
       [first |-> 74, last |-> 77, kind |-> "plain",
        total |-> 0, split |-> 0,
        needs |-> {"np"},
        binds |-> {"X", "y"}],
       [first |-> 86, last |-> 91, kind |-> "plain",
        total |-> 0, split |-> 0,
        needs |-> {"plt", "X", "y"},
        binds |-> {"dendrogram", "linkage", "linked"}],
       [first |-> 120, last |-> 121, kind |-> "plain",
        total |-> 0, split |-> 0,
        needs |-> {"np"},
        binds |-> {"X"}],
       [first |-> 130, last |-> 133, kind |-> "plain",
        total |-> 0, split |-> 0,
        needs |-> {"plt", "X", "linkage", "dendrogram"},
        binds |-> {"linked"}],
       [first |-> 167, last |-> 173, kind |-> "plain",
        total |-> 0, split |-> 0,
        needs |-> {"X", "plt"},
        binds |-> {"pairwise_distances", "D"}],
       [first |-> 189, last |-> 196, kind |-> "plain",
        total |-> 0, split |-> 0,
        needs |-> {"D", "plt", "linkage", "dendrogram"},
        binds |-> {"ssd", "distArray", "linked"}],
       [first |-> 212, last |-> 217, kind |-> "plain",
        total |-> 0, split |-> 0,
        needs |-> {"np"},
        binds |-> {"D"}],
       [first |-> 244, last |-> 249, kind |-> "plain",
        total |-> 0, split |-> 0,
        needs |-> {"D", "ssd", "plt", "linkage", "dendrogram"},
        binds |-> {"distArray", "linked"}],
       [first |-> 265, last |-> 273, kind |-> "plain",
        total |-> 0, split |-> 0,
        needs |-> {"nx"},
        binds |-> {"G"}] >>

\* the code cells of notebook 06, in order
Cells06 ==
    << [first |-> 18, last |-> 33, kind |-> "plain",
        total |-> 0, split |-> 0,
        needs |-> {},
        binds |-> {"np", "datasets", "SVC", "train_test_split", "plt", "time",
                   "Rips", "PersImage", "Image"}],
       [first |-> 83, last |-> 97, kind |-> "plain",
        total |-> 0, split |-> 0,
        needs |-> {},
        binds |-> {"sample_spherical", "noisy_sphere"}],
       [first |-> 106, last |-> 111, kind |-> "plain",
        total |-> 0, split |-> 0,
        needs |-> {"noisy_sphere", "np", "sample_spherical", "plt"},
        binds |-> {"data", "fig", "ax1"}],
       [first |-> 127, last |-> 128, kind |-> "plain",
        total |-> 0, split |-> 0,
        needs |-> {},
        binds |-> {"noise"}],
       [first |-> 144, last |-> 171, kind |-> "plain",
        total |-> 0, split |-> 0,
        needs |-> {"noise", "np", "noisy_sphere", "sample_spherical"},
        binds |-> {"total_samples", "samples_per_class", "npoints",
                   "circle_noise_level", "snr", "noise_scale", "circle_scale", "_",
                   "just_noise", "with_circle", "datas", "labels"}],
       [first |-> 187, last |-> 202, kind |-> "plain",
        total |-> 0, split |-> 0,
        needs |-> {"plt", "np", "just_noise", "with_circle"},
        binds |-> {"axs", "fig", "random_sample_choice", "xs", "ys", "xs_", "ys_"}],
       [first |-> 220, last |-> 223, kind |-> "plain",
        total |-> 0, split |-> 0,
        needs |-> {"Rips", "datas"},
        binds |-> {"rips", "data", "diagrams", "diagrams_h1"}],
       [first |-> 239, last |-> 251, kind |-> "plot_pair",
        total |-> TotalSamples, split |-> SamplesPerClass,
        needs |-> {"plt", "np", "diagrams_h1", "rips"},
        binds |-> {"random_sample"}],
       [first |-> 269, last |-> 271, kind |-> "plain",
        total |-> 0, split |-> 0,
        needs |-> {"PersImage", "diagrams_h1"},
        binds |-> {"pim", "imgs"}],
       [first |-> 287, last |-> 297, kind |-> "plain",
        total |-> 0, split |-> 0,
        needs |-> {"plt", "imgs", "pim"},
        binds |-> {"ax", "i"}],
       [first |-> 315, last |-> 315, kind |-> "plain",
        total |-> 0, split |-> 0,
        needs |-> {"imgs", "np"},
        binds |-> {"img", "imgs_array"}],
       [first |-> 331, last |-> 331, kind |-> "plain",
        total |-> 0, split |-> 0,
        needs |-> {"imgs_array", "labels", "train_test_split"},
        binds |-> {"X_test", "X_train", "y_test", "y_train"}],
       [first |-> 347, last |-> 349, kind |-> "plain",
        total |-> 0, split |-> 0,
        needs |-> {"SVC", "X_train", "y_train"},
        binds |-> {"modelSVM"}],
       [first |-> 365, last |-> 365, kind |-> "plain",
        total |-> 0, split |-> 0,
        needs |-> {"X_test", "modelSVM", "y_test"},
        binds |-> {}],
       [first |-> 388, last |-> 390, kind |-> "plain",
        total |-> 0, split |-> 0,
        needs |-> {"modelSVM", "np", "plt"},
        binds |-> {"classifying_image"}],
       [first |-> 412, last |-> 419, kind |-> "plain",
        total |-> 0, split |-> 0,
        needs |-> {"datas", "np", "labels", "train_test_split", "SVC"},
        binds |-> {"datas_array", "sample", "X_test", "X_train", "y_test",
                   "y_train", "modelSVM"}],
       [first |-> 437, last |-> 442, kind |-> "plain",
        total |-> 0, split |-> 0,
        needs |-> {"modelSVM", "np", "plt"},
        binds |-> {"classifying_image", "fig", "ax1"}],
       [first |-> 500, last |-> 505, kind |-> "plain",
        total |-> 0, split |-> 0,
        needs |-> {"np"},
        binds |-> {"barcodes", "file", "fileName", "j"}],
       [first |-> 521, last |-> 528, kind |-> "plain",
        total |-> 0, split |-> 0,
        needs |-> {"barcodes", "np"},
        binds |-> {"dem_barcodes", "bar", "barcode", "j", "k"}],
       [first |-> 544, last |-> 551, kind |-> "plain",
        total |-> 0, split |-> 0,
        needs |-> {"barcodes", "np"},
        binds |-> {"rep_barcodes", "bar", "barcode", "j", "k"}],
       [first |-> 567, last |-> 567, kind |-> "plain",
        total |-> 0, split |-> 0,
        needs |-> {"dem_barcodes", "rep_barcodes"},
        binds |-> {"all_barcodes"}],
       [first |-> 576, last |-> 576, kind |-> "plain",
        total |-> 0, split |-> 0,
        needs |-> {"dem_barcodes", "rep_barcodes"},
        binds |-> {"y"}],
       [first |-> 594, last |-> 606, kind |-> "plot_pair",
        total |-> (DemStop - DemFirst) + (RepStop - RepFirst), split |-> DemStop - DemFirst,
        needs |-> {"plt", "np", "all_barcodes", "rips"},
        binds |-> {"random_sample"}],
       [first |-> 615, last |-> 616, kind |-> "plain",
        total |-> 0, split |-> 0,
        needs |-> {"PersImage", "all_barcodes"},
        binds |-> {"pim", "imgs"}],
       [first |-> 634, last |-> 644, kind |-> "plain",
        total |-> 0, split |-> 0,
        needs |-> {"plt", "imgs", "pim"},
        binds |-> {"ax", "i"}],
       [first |-> 662, last |-> 662, kind |-> "plain",
        total |-> 0, split |-> 0,
        needs |-> {"imgs", "np"},
        binds |-> {"img", "imgs_array"}],
       [first |-> 678, last |-> 679, kind |-> "plain",
        total |-> 0, split |-> 0,
        needs |-> {"imgs_array", "train_test_split", "y"},
        binds |-> {"X_test", "X_train", "y_test", "y_train"}],
       [first |-> 695, last |-> 698, kind |-> "plain",
        total |-> 0, split |-> 0,
        needs |-> {"SVC", "X_train", "y_train", "X_test", "y_test"},
        binds |-> {"modelSVM"}],
       [first |-> 727, last |-> 729, kind |-> "plain",
        total |-> 0, split |-> 0,
        needs |-> {"modelSVM", "plt"},
        binds |-> {"classifying_image"}] >>

\* the code cells of the Takens notebook, in order
CellsTakens ==
    << [first |-> 20, last |-> 47, kind |-> "plain",
        total |-> 0, split |-> 0,
        needs |-> {},
        binds |-> {"SingleTakensEmbedding", "VietorisRipsPersistence",
                   "BettiCurve", "Filtering", "PairwiseDistance",
                   "PersistenceEntropy", "Scaler", "GraphGeodesicDistance",
                   "KNeighborsGraph", "Pipeline", "np", "pairwise_distances", "px",
                   "init_notebook_mode", "iplot", "plot_heatmap", "openml",
                   "get_dataset", "plot_betti_surfaces", "plot_diagram",
                   "plot_point_cloud", "plt", "Axes3D"}],
       [first |-> 65, last |-> 70, kind |-> "plain",
        total |-> 0, split |-> 0,
        needs |-> {"np"},
        binds |-> {"n_samples", "domain", "noise_level", "frequency", "signal", "x"}],
       [first |-> 79, last |-> 80, kind |-> "plain",
        total |-> 0, split |-> 0,
        needs |-> {"domain", "plt", "signal"},
        binds |-> {}],
       [first |-> 106, last |-> 110, kind |-> "plain",
        total |-> 0, split |-> 0,
        needs |-> {"SingleTakensEmbedding", "signal"},
        binds |-> {"dimension", "time_delay", "embedder", "embedded_signal"}],
       [first |-> 126, last |-> 126, kind |-> "plain",
        total |-> 0, split |-> 0,
        needs |-> {"embedded_signal"},
        binds |-> {}],
       [first |-> 144, last |-> 152, kind |-> "plain",
        total |-> 0, split |-> 0,
        needs |-> {"plt", "embedded_signal"},
        binds |-> {"fig", "ax", "xs", "ys", "zs"}],
       [first |-> 168, last |-> 168, kind |-> "plain",
        total |-> 0, split |-> 0,
        needs |-> {"embedded_signal", "plot_point_cloud"},
        binds |-> {}],
       [first |-> 190, last |-> 195, kind |-> "plain",
        total |-> 0, split |-> 0,
        needs |-> {"frequency", "n_samples", "SingleTakensEmbedding", "dimension",
                   "signal", "plot_point_cloud"},
        binds |-> {"time_delay", "embedder", "embedded_signal"}],
       [first |-> 211, last |-> 218, kind |-> "plain",
        total |-> 0, split |-> 0,
        needs |-> {"np", "n_samples", "SingleTakensEmbedding", "dimension",
                   "signal", "plot_point_cloud"},
        binds |-> {"tau", "time_delay", "embedder", "embedded_signal"}],
       [first |-> 238, last |-> 248, kind |-> "plain",
        total |-> 0, split |-> 0,
        needs |-> {"frequency", "np", "n_samples", "SingleTakensEmbedding",
                   "dimension", "signal", "plot_point_cloud"},
        binds |-> {"tau", "time_delay", "embedder", "embedded_signal",
                   "plot_start", "plot_end", "truncated_embedded_signal"}],
       [first |-> 264, last |-> 267, kind |-> "plain",
        total |-> 0, split |-> 0,
        needs |-> {"embedded_signal", "plt"},
        binds |-> {"projection_coord", "projected_signal"}],
       [first |-> 290, last |-> 294, kind |-> "plain",
        total |-> 0, split |-> 0,
        needs |-> {"VietorisRipsPersistence", "embedded_signal"},
        binds |-> {"homology_dimensions", "VR", "X_diagrams"}],
       [first |-> 303, last |-> 303, kind |-> "plain",
        total |-> 0, split |-> 0,
        needs |-> {"X_diagrams", "plot_diagram"},
        binds |-> {}],
       [first |-> 321, last |-> 331, kind |-> "plain",
        total |-> 0, split |-> 0,
        needs |-> {"frequency", "np", "SingleTakensEmbedding", "VR", "dimension",
                   "n_samples", "plot_diagram", "plt", "signal"},
        binds |-> {"taus", "X_diagrams", "embedded_signal", "embedder", "tau",
                   "time_delay"}],
       [first |-> 353, last |-> 361, kind |-> "plain",
        total |-> 0, split |-> 0,
        needs |-> {"SingleTakensEmbedding", "signal"},
        binds |-> {"dimension", "time_delay", "embedder", "embedded_signal"}],
       [first |-> 370, last |-> 375, kind |-> "plain",
        total |-> 0, split |-> 0,
        needs |-> {"VietorisRipsPersistence", "embedded_signal", "plot_diagram"},
        binds |-> {"homology_dimensions", "VR", "X_diagrams"}],
       [first |-> 391, last |-> 394, kind |-> "plain",
        total |-> 0, split |-> 0,
        needs |-> {"embedder", "n_samples", "np"},
        binds |-> {"d", "tau", "tau_continuous"}],
       [first |-> 410, last |-> 410, kind |-> "plain",
        total |-> 0, split |-> 0,
        needs |-> {"d", "frequency", "np", "tau_continuous"},
        binds |-> {}],
       [first |-> 435, last |-> 436, kind |-> "plain",
        total |-> 0, split |-> 0,
        needs |-> {"get_dataset", "plot_point_cloud"},
        binds |-> {"point_cloud"}],
       [first |-> 452, last |-> 454, kind |-> "plain",
        total |-> 0, split |-> 0,
        needs |-> {"point_cloud", "plt"},
        binds |-> {"signal"}],
       [first |-> 472, last |-> 479, kind |-> "plain",
        total |-> 0, split |-> 0,
        needs |-> {"SingleTakensEmbedding", "signal"},
        binds |-> {"embedding_dimension", "time_delay", "embedder",
                   "embedded_signal"}],
       [first |-> 495, last |-> 495, kind |-> "plain",
        total |-> 0, split |-> 0,
        needs |-> {},
        binds |-> {"PCA"}],
       [first |-> 504, last |-> 506, kind |-> "plain",
        total |-> 0, split |-> 0,
        needs |-> {"PCA", "embedded_signal", "plot_point_cloud"},
        binds |-> {"pca", "X"}],
       [first |-> 522, last |-> 524, kind |-> "plain",
        total |-> 0, split |-> 0,
        needs |-> {"embedded_signal", "np"},
        binds |-> {"subsample_factor", "subsampled_embedded_signal", "t"}],
       [first |-> 533, last |-> 537, kind |-> "plain",
        total |-> 0, split |-> 0,
        needs |-> {"VietorisRipsPersistence", "subsampled_embedded_signal"},
        binds |-> {"homology_dimensions", "VR", "X_diagrams"}],
       [first |-> 546, last |-> 546, kind |-> "plain",
        total |-> 0, split |-> 0,
        needs |-> {"X_diagrams", "plot_diagram"},
        binds |-> {}],
       [first |-> 601, last |-> 651, kind |-> "plain",
        total |-> 0, split |-> 0,
        needs |-> {},
        binds |-> {"Path", "make_gravitational_waves"}],
       [first |-> 660, last |-> 669, kind |-> "make_waves",
        total |-> 0, split |-> 0,
        needs |-> {"Path", "make_gravitational_waves", "np"},
        binds |-> {"R", "n_signals", "DATA", "gw_signals", "labels", "noisy_signals"}],
       [first |-> 685, last |-> 722, kind |-> "pick_series",
        total |-> 0, split |-> 0,
        needs |-> {"labels", "noisy_signals", "gw_signals"},
        binds |-> {"np", "make_subplots", "go", "background_idx", "signal_idx",
                   "ts_noise", "ts_background", "ts_signal", "fig"}],
       [first |-> 738, last |-> 746, kind |-> "plain",
        total |-> 0, split |-> 0,
        needs |-> {"SingleTakensEmbedding", "gw_signals"},
        binds |-> {"embedding_dimension", "embedding_time_delay", "stride",
                   "embedder", "y_gw_embedded"}],
       [first |-> 762, last |-> 768, kind |-> "plain",
        total |-> 0, split |-> 0,
        needs |-> {"y_gw_embedded"},
        binds |-> {"PCA", "plot_point_cloud", "pca", "y_gw_embedded_pca"}],
       [first |-> 784, last |-> 797, kind |-> "plain",
        total |-> 0, split |-> 0,
        needs |-> {"SingleTakensEmbedding", "background_idx", "noisy_signals",
                   "PCA", "plot_point_cloud"},
        binds |-> {"embedding_dimension", "embedding_time_delay", "stride",
                   "embedder", "y_noise_embedded", "pca", "y_noise_embedded_pca"}],
       [first |-> 822, last |-> 850, kind |-> "plain",
        total |-> 0, split |-> 0,
        needs |-> {"PCA"},
        binds |-> {"PersistenceEntropy", "Scaler", "VietorisRipsPersistence",
                   "CollectionTransformer", "Pipeline", "TakensEmbedding",
                   "embedding_dimension", "embedding_time_delay", "stride",
                   "embedder", "batch_pca", "persistence", "scaling", "entropy",
                   "steps", "topological_transfomer"}],
       [first |-> 859, last |-> 859, kind |-> "plain",
        total |-> 0, split |-> 0,
        needs |-> {"noisy_signals", "topological_transfomer"},
        binds |-> {"features"}],
       [first |-> 882, last |-> 882, kind |-> "plain",
        total |-> 0, split |-> 0,
        needs |-> {},
        binds |-> {"cross_validate"}],
       [first |-> 891, last |-> 892, kind |-> "plain",
        total |-> 0, split |-> 0,
        needs |-> {},
        binds |-> {"SVC", "modelSVM"}],
       [first |-> 901, last |-> 901, kind |-> "plain",
        total |-> 0, split |-> 0,
        needs |-> {"cross_validate", "features", "labels", "modelSVM"},
        binds |-> {"cv_results"}],
       [first |-> 910, last |-> 910, kind |-> "plain",
        total |-> 0, split |-> 0,
        needs |-> {"cv_results", "np"},
        binds |-> {}] >>


Cells(nb) ==
    CASE nb = "02" -> Cells02
      [] nb = "06" -> Cells06
      [] nb = "Takens" -> CellsTakens

\* a value not yet assigned
Unset == 0 - 1

\* list[i] for a Python list of length len: the position read
PythonIndex(i, len) == IF i < 0 THEN len + i ELSE i

\* the class of the entry at position pos of a list whose first split entries
\* are of class 0 and whose other entries are of class 1
ClassAt(pos, split) == IF pos < split THEN 0 ELSE 1

\* np.argmin(v), np.argmax(v): the first position of the least, greatest entry
Argmin(v) ==
    Min({i \in DOMAIN v : \A k \in DOMAIN v : v[i] <= v[k]})

Argmax(v) ==
    Min({i \in DOMAIN v : \A k \in DOMAIN v : v[i] >= v[k]})

InitNotebook ==
    /\ notebook \in {"02", "06", "Takens"}
    /\ cell_index = 1
    /\ bound = {}
    /\ bound_at = <<>>
    /\ last_reads = <<>>
    /\ random_sample = Unset
    /\ shown = <<>>
    /\ script_labels = <<>>
    /\ background_idx = Unset
    /\ signal_idx = Unset
    /\ scriptPc = "running"

\* the cell about to run
Current == Cells(notebook)[cell_index]

Runnable == scriptPc = "running" /\ cell_index <= Len(Cells(notebook))

\* every name the cell needs is bound
Ready(c) == c.needs \subseteq bound

\* running cell c: NameError at a name that is not bound, else its names are
\* bound and the next cell is current
Step(c) ==
    IF Ready(c)
    THEN /\ bound' = bound \cup c.binds
         /\ bound_at' = [name \in bound \cup c.binds |->
                            IF name \in c.binds THEN c.first ELSE bound_at[name]]
         /\ last_reads' = [name \in c.needs |-> bound_at[name]]
         /\ cell_index' = cell_index + 1
         /\ scriptPc' = IF cell_index = Len(Cells(notebook))
                         THEN "finished" ELSE "running"
    ELSE /\ scriptPc' = "NameError"
         /\ UNCHANGED <<bound, bound_at, last_reads, cell_index>>

\* a cell without a modelled effect on data
RunCell ==
    /\ Runnable
    /\ Current.kind = "plain"
    /\ Step(Current)
    /\ UNCHANGED <<notebook, random_sample, shown, script_labels, background_idx,
                   signal_idx, slhcVars, ghVars, takensVars, gwVars, delayVars,
                   noiseVars, csvVars>>

\* random_sample = np.random.randint(50); rips.plot(list[random_sample]) with
\* the title of the first class; rips.plot(list[-random_sample]) with the
\* title of the second class
PlotPair ==
    /\ Runnable
    /\ Current.kind = "plot_pair"
    /\ Step(Current)
    /\ IF Ready(Current)
       THEN \E r \in Randint(RandomSampleBound) :
               /\ random_sample' = r
               /\ shown' = [left |-> ClassAt(PythonIndex(r, Current.total),
                                             Current.split),
                            right |-> ClassAt(PythonIndex(0 - r, Current.total),
                                              Current.split)]
       ELSE UNCHANGED <<random_sample, shown>>
    /\ UNCHANGED <<notebook, script_labels, background_idx, signal_idx,
                   slhcVars, ghVars, takensVars, gwVars, delayVars, noiseVars, csvVars>>

\* noisy_signals, gw_signals, labels = make_gravitational_waves(...)
MakeWaves ==
    /\ Runnable
    /\ Current.kind = "make_waves"
    /\ Step(Current)
    /\ IF Ready(Current)
       THEN script_labels' \in [Idx(MaxLabels) -> {0, 1}]
       ELSE UNCHANGED script_labels
    /\ UNCHANGED <<notebook, random_sample, shown, background_idx, signal_idx,
                   slhcVars, ghVars, takensVars, gwVars, delayVars, noiseVars, csvVars>>

\* background_idx = np.argmin(labels); signal_idx = np.argmax(labels)
PickSeries ==
    /\ Runnable
    /\ Current.kind = "pick_series"
    /\ Step(Current)
    /\ IF Ready(Current)
       THEN /\ background_idx' = Argmin(script_labels)
            /\ signal_idx' = Argmax(script_labels)
       ELSE UNCHANGED <<background_idx, signal_idx>>
    /\ UNCHANGED <<notebook, random_sample, shown, script_labels,
                   slhcVars, ghVars, takensVars, gwVars, delayVars, noiseVars, csvVars>>

NextScript == RunCell \/ PlotPair \/ MakeWaves \/ PickSeries

InitScript ==
    /\ InitNotebook /\ IdleSLHC /\ IdleGH /\ IdleTakens /\ IdleGW /\ IdleDelay
    /\ IdleNoise /\ IdleCSV

SpecScript == InitScript /\ [][NextScript]_vars

-----------------------------------------------------------------------------
(* Properties of notebook 02 *)

\* a matrix written out in row-major order (entry i, j at position i*m + j + 1)
Flat(f, m) ==
    LET RECURSIVE F(_)
        F(k) == IF k = 0 THEN <<>>
                ELSE Append(F(k - 1), f[(k - 1) \div m][(k - 1) % m])
    IN F(m * m)

\* u_X of the space being clustered, written out
uX == Flat(UXMatrix(dX, n), n)

U(T, a, b) == T[a * n + b + 1]

\* C1: u_X satisfies the strong triangle inequality: for all x, x', x'',
\* u_X(x, x'') <= max(u_X(x, x'), u_X(x', x'')).
C1_StrongTriangle ==
    LET u == uX IN
    \A a, b, c \in Idx(n) : U(u, a, c) <= Max({U(u, a, b), U(u, b, c)})

\* a finished clustering of a freely chosen matrix with three different points
\* where a chain through b is strictly shorter than the direct step a, c
C1_Witness ==
    LET u == uX IN
    /\ cell = "OwnMatrix"
    /\ LinkageDone
    /\ \E a, b, c \in Idx(n) :
          /\ Cardinality({a, b, c}) = 3
          /\ U(u, a, c) < dX[a][c]
          /\ U(u, a, c) = Max({U(u, a, b), U(u, b, c)})

\* C2: the merge heights of single linkage reproduce u_X: the height of the
\* merge at which x and x' first fall in one cluster is u_X(x, x'), and when
\* linkage has finished every pair has such a merge.
C2_LinkageIsUX ==
    LET u == uX IN
    \A a, b \in Idx(n) :
        a # b =>
            /\ FirstRow(linked, members, n, a, b) # 0
                  => linked[FirstRow(linked, members, n, a, b)][3] = U(u, a, b)
            /\ LinkageDone => FirstRow(linked, members, n, a, b) # 0

\* a finished linkage of a matrix and one of a point cloud cover this: here the
\* matrix case, with a pair merged below its own distance
C2_Witness ==
    /\ cell = "OwnMatrix"
    /\ LinkageDone
    /\ Len(linked) = n - 1
    /\ \E a, b \in Idx(n) :
          /\ a # b
          /\ linked[FirstRow(linked, members, n, a, b)][3] < D[a][b]

\* C4: u_X >= 0, u_X(x, x') = 0 exactly when x = x', and u_X is symmetric.
C4_UXMetricAxioms ==
    LET u == uX IN
    \A a, b \in Idx(n) :
        /\ U(u, a, b) >= 0
        /\ (U(u, a, b) = 0) <=> (a = b)
        /\ U(u, a, b) = U(u, b, a)

\* a space with two different values of u_X between different points
C4_Witness ==
    LET u == uX IN
    /\ LinkageDone
    /\ \E a, b, c \in Idx(n) : a # b /\ 0 < U(u, a, b) /\ U(u, a, b) < U(u, a, c)

\* C9 as stated: the five merge heights of Example 2 are those of Example 1
\* (every height occurs equally often) and the dendrograms differ.
C9_SameFiveHeights ==
    Len(plots) >= 2 =>
        /\ \A h \in Heights(plots[1]) \cup Heights(plots[2]) :
              HeightCount(plots[1], h) = HeightCount(plots[2], h)
        /\ \E s \in 1..6 : SizeCount(plots[1], s) # SizeCount(plots[2], s)

\* C9 amended: the two dendrograms merge at the same height values (1, 2, 3),
\* the number of merges at a height differs, and the dendrograms differ (the
\* sizes of the clusters they form are not the same).
C9_SameHeightValues ==
    Len(plots) >= 2 =>
        /\ Heights(plots[1]) = Heights(plots[2])
        /\ Heights(plots[1]) = {Num(1), Num(2), Num(3)}
        /\ Len(plots[1]) = 5 /\ Len(plots[2]) = 5
        /\ \E h \in Heights(plots[1]) :
              HeightCount(plots[1], h) # HeightCount(plots[2], h)
        /\ \E s \in 1..6 : SizeCount(plots[1], s) # SizeCount(plots[2], s)

\* both dendrograms are on screen
C9_Witness ==
    /\ Len(plots) >= 2
    /\ HeightCount(plots[1], Num(1)) = 3
    /\ HeightCount(plots[2], Num(2)) = 2

\* C10: D is the distance matrix of G: D[i][j] is the length of a shortest
\* weighted path from i to j, for all vertices i, j.
C10_DIsGraphMetric ==
    (cell = "Graph" /\ Cardinality(G) = Len(EdgeList)) =>
        \A i, j \in Idx(4) : D[i][j] = FloydWarshall(G, 4)[i][j]

\* the graph is complete and the path 2 - 0 - 3 has the length D[2][3] = 5
C10_Witness ==
    /\ cell = "Graph"
    /\ Cardinality(G) = 3
    /\ D[2][3] = Num(5)
    /\ FloydWarshall(G, 4)[2][3] = EdgeLength(G, 2, 0) + EdgeLength(G, 0, 3)

\* C3: d_GH((X, u_X), (Y, u_Y)) <= d_GH((X, d_X), (Y, d_Y)); both sides are
\* compared as twice the distance, the least distortion of a correspondence.
C3_GHStability ==
    (ultraX # <<>> /\ ultraY # <<>>) =>
        TwiceGH(ultraX, spaceX.n, ultraY, spaceY.n)
            <= TwiceGH(spaceX.d, spaceX.n, spaceY.d, spaceY.n)

\* both ultrametrics are computed, u_X differs from d_X, and the inequality
\* is strict
C3_Witness ==
    /\ ultraX # <<>>
    /\ ultraY # <<>>
    /\ ultraX # spaceX.d
    /\ TwiceGH(ultraX, spaceX.n, ultraY, spaceY.n)
           < TwiceGH(spaceX.d, spaceX.n, spaceY.d, spaceY.n)

\* C5: with stride 1 the embedded point cloud of a signal of n samples has
\* exactly n - (d-1)*tau points, each of dimension d.
C5_EmbeddedShape ==
    (takensPc \in {"embedded", "projected"} /\ stride = 1) =>
        /\ DOMAIN embedded_signal = Idx(n_samples - (dimension - 1) * time_delay)
        /\ \A i \in DOMAIN embedded_signal :
              DOMAIN embedded_signal[i] = Idx(dimension)

\* an embedding with d >= 2 that has fewer points than the signal has samples
C5_Witness ==
    /\ takensPc = "embedded"
    /\ stride = 1
    /\ dimension >= 2
    /\ Cardinality(DOMAIN embedded_signal) = 2
    /\ n_samples = 2 + (dimension - 1) * time_delay

\* C6: with stride 1, coordinate j of the i-th embedded point is
\* signal[i + j*tau]; the projection to axis j is the stretch of the signal
\* that starts at j*tau, and every position read lies inside the signal.
C6_ProjectionIsTranslate ==
    (takensPc \in {"embedded", "projected"} /\ stride = 1) =>
        /\ \A i \in DOMAIN embedded_signal : \A j \in Idx(dimension) :
              /\ embedded_signal[i][j] # IndexError
              /\ InRange(i + j * time_delay, n_samples)
              /\ embedded_signal[i][j] = signal[i + j * time_delay]
        /\ takensPc = "projected" =>
              /\ DOMAIN projected_signal = DOMAIN embedded_signal
              /\ \A i \in DOMAIN projected_signal :
                    projected_signal[i] = signal[i + projection_coord * time_delay]

\* a projection to an axis other than the first, of a non constant signal
C6_Witness ==
    /\ takensPc = "projected"
    /\ stride = 1
    /\ projection_coord > 0
    /\ Cardinality(DOMAIN projected_signal) >= 2
    /\ projected_signal[0] # projected_signal[1]
    /\ projected_signal[0] # signal[0]

\* the reference signals whose wave has samples in a series (none: the series
\* is noise only)
WavesIn(series) ==
    {series[b].ref : b \in {c \in 1..Len(series) :
                                series[c].kind = "wave+noise" /\ series[c].len > 0}}

\* C7: the three results have n_signals entries each; every label is 0 or 1;
\* labels[j] = 1 exactly when the wave gw['data'][j mod Ndat] was added into
\* noisy_signals[j], labels[j] = 0 exactly when the series is noise only; the
\* reference index is always valid.
C7_LabelsMatchWaves ==
    /\ gwPc # "IndexError"
    /\ gwPc = "returned" =>
          /\ Len(noisy_signals) = n_signals
          /\ Len(gw_signals) = n_signals
          /\ DOMAIN labels = Idx(n_signals)
    /\ gwPc \in {"loop", "returned"} =>
          \A j \in Idx(jj) :
              /\ labels[j] \in {0, 1}
              /\ InRange(gw_signals[j + 1].ref, Ndat)
              /\ gw_signals[j + 1].ref = j % Ndat
              /\ labels[j] = 1 <=> WavesIn(noisy_signals[j + 1]) = {j % Ndat}
              /\ labels[j] = 0 <=> WavesIn(noisy_signals[j + 1]) = {}

\* more series than reference signals, with a wave in a series whose number is
\* not below Ndat, and a noise-only series
C7_Witness ==
    /\ gwPc = "returned"
    /\ n_signals > Ndat
    /\ \E j \in Idx(n_signals) : j >= Ndat /\ labels[j] = 1
    /\ \E j \in Idx(n_signals) : labels[j] = 0

C11_DIsMetric ==
    cell \in {"Example3D", "Graph"} =>
        /\ \A i \in Idx(4) : D[i][i] = 0
        /\ \A i, j \in Idx(4) : D[i][j] = D[j][i]
        /\ \A i, j \in Idx(4) : i # j => D[i][j] > 0
        /\ \A i, j, k \in Idx(4) : D[i][k] <= D[i][j] + D[j][k]

\* D has been assigned, and the triangle 1, 0, 3 is degenerate
C11_Witness ==
    /\ cell = "Example3D"
    /\ D[1][3] = Num(4)
    /\ D[1][3] = D[1][0] + D[0][3]

\* C12: the literal D is non-Euclidean: the Gram matrix
\* G[i][j] = (D[0][i]^2 + D[0][j]^2 - D[i][j]^2) / 2, i, j in 1..3, is not
\* positive semidefinite, so no four points of any R^n have these distances.
C12_DNonEuclidean ==
    cell \in {"Example3D", "Graph"} => ~IsEuclidean(D, 4)

\* D has been assigned, every 1x1 and 2x2 principal minor of the Gram matrix
\* is nonnegative and the determinant is negative
C12_Witness ==
    /\ cell = "Example3D"
    /\ \A S \in SUBSET (1..3) :
          Cardinality(S) <= 2 => Det(Gram2(D, 4), Sorted(S), Sorted(S)) >= 0
    /\ Det(Gram2(D, 4), <<1, 2, 3>>, <<1, 2, 3>>) = 0 - 8 * 144

\* C13: converting a discrete delay k in 1..n to the continuous one
\* (tau*pi/n_samples) and discretising that again
\* (int(tau*n_samples/(2*pi))) gives k back.
C13_DelayRoundTrip ==
    rediscretised # NotComputed => rediscretised = time_delay_

\* C14: for optimal parameters (omega * d * tau = 0 mod pi, as with d = 3 and
\* the discrete delay n / (6 omega)) the quantity
\* frequency*tau_continuous*d/pi computed from the discrete delay is an integer.
C14_OptimalQuantityIsInteger ==
    (check_quantity # <<>> /\ Optimal(frequency, dimension_, time_delay_, nSamples)) =>
        check_quantity.num % check_quantity.den = 0

\* the notebook's optimal case d = 3, delay n / (6 omega): the quantity is 1/2
C14_Witness ==
    /\ check_quantity # <<>>
    /\ dimension_ = 3
    /\ nSamples = 6 * frequency * time_delay_
    /\ 2 * check_quantity.num = check_quantity.den

\* a delay was converted and discretised again, and came back halved
C13_Witness ==
    /\ rediscretised # NotComputed
    /\ time_delay_ >= 2
    /\ rediscretised = time_delay_ \div 2

\* C15: noise(N, scale, ndim) returns N points of dimension ndim, an N-by-ndim
\* array, with every coordinate in [0, scale), for every ndim >= 1.
C15_NoiseShape ==
    noisePc = "returned" =>
        /\ DOMAIN point_cloud = Idx(noise_N)
        /\ \A i \in Idx(noise_N) :
              /\ DOMAIN point_cloud[i] = Idx(ndim)
              /\ \A c \in DOMAIN point_cloud[i] :
                    0 <= point_cloud[i][c] /\ point_cloud[i][c] < Num(noise_scale)

\* a cloud asked for in dimension 3 comes back with two coordinates per point
C15_Witness ==
    /\ noisePc = "returned"
    /\ ndim = 3
    /\ noise_N >= 1
    /\ DOMAIN point_cloud[0] = Idx(2)

\* the row of the files that a barcode was read from
PlanRow(barcode) == barcode[0][0][2]

\* C16: every element of all_barcodes is a 6-by-2 array whose k-th row is the
\* pair from columns 1 and 2 of that plan's row in file k; rows 1..242 are the
\* Democrat-biased class and rows 243..430 the Republican-biased class, each
\* of the rows 1..430 is used exactly once and row 0 never; y is as long as
\* all_barcodes, 0 exactly for the Democrat-biased and 1 exactly for the
\* Republican-biased plans.
C16_BarcodesAndLabels ==
    csvPc = "done" =>
        /\ \A i \in 1..Len(all_barcodes) :
              \E r \in 0..(file_rows - 1) :
                  all_barcodes[i] =
                      [k \in Idx(6) |-> [c \in Idx(2) |-> <<k, r, c + 1>>]]
        /\ \A r \in 1..430 :
              Cardinality({i \in 1..Len(all_barcodes) : PlanRow(all_barcodes[i]) = r}) = 1
        /\ \A i \in 1..Len(all_barcodes) : PlanRow(all_barcodes[i]) \in 1..430
        /\ \A i \in 1..Len(dem_barcodes) : PlanRow(dem_barcodes[i]) \in 1..242
        /\ \A i \in 1..Len(rep_barcodes) : PlanRow(rep_barcodes[i]) \in 243..430
        /\ Len(y_labels) = Len(all_barcodes)
        /\ \A i \in 1..Len(all_barcodes) :
              /\ y_labels[i] = 0 <=> PlanRow(all_barcodes[i]) \in 1..242
              /\ y_labels[i] = 1 <=> PlanRow(all_barcodes[i]) \in 243..430

\* the lists are complete: the last Democrat-biased plan is followed by the
\* first Republican-biased one, read from row 243 of each file
C16_Witness ==
    /\ csvPc = "done"
    /\ Len(all_barcodes) = 430
    /\ y_labels[242] = 0 /\ y_labels[243] = 1
    /\ all_barcodes[243][5] = [c \in Idx(2) |-> <<5, 243, c + 1>>]
    /\ file_cols > 3

\* C17: each notebook is a linear script: run once, top to bottom, every name
\* a cell reads has been bound by that cell or an earlier one, and each step
\* consumes the data of the step its text refers to: the distance matrix of
\* 'the previous example' is computed from Example 2's X, the diagram plotted
\* under the title of the first class is of the first class and the one under
\* the title of the second class is of the second, and the series picked as
\* noise and as signal have the labels 0 and 1.
C17_LinearScript ==
    /\ scriptPc # "NameError"
    /\ (notebook = "02" /\ cell_index > 1 /\ Cells02[cell_index - 1].first = 167) =>
          last_reads["X"] = 120
    /\ shown # <<>> => (shown.left = 0 /\ shown.right = 1)
    /\ background_idx # Unset =>
          (script_labels[background_idx] = 0 /\ script_labels[signal_idx] = 1)

\* Part 2 of notebook 06 has plotted its two diagrams for random_sample = 0:
\* both are the diagram of the first, Democrat-biased, plan
C17_Witness ==
    /\ notebook = "06"
    /\ "all_barcodes" \in bound
    /\ cell_index > 1
    /\ Cells06[cell_index - 1].first = 594
    /\ random_sample = 0
    /\ shown = [left |-> 0, right |-> 0]

\* C18: for every Norig >= 1 and downsample_factor >= 1 the downsampled
\* reference signal and the noise vector of length N have the same length, so
\* signal + noise is defined, series with and without a wave have the same
\* length, and the function never fails with a length mismatch.
C18_NoLengthMismatch ==
    /\ gwPc # "ValueError"
    /\ \A i \in 1..Len(gw_signals) :
          gw_signals[i].len = NoiseLen(Norig, downsample_factor)
    /\ \A i, k \in 1..Len(noisy_signals) :
          SeriesLen(noisy_signals[i]) = SeriesLen(noisy_signals[k])

\* a reference signal of 5 samples taken at every second one has 3 samples,
\* the noise has 2, and adding them raises ValueError
C18_Witness ==
    /\ gwPc = "ValueError"
    /\ Norig = 5
    /\ downsample_factor = 2
    /\ DownsampledLen(Norig, downsample_factor) = 3
    /\ NoiseLen(Norig, downsample_factor) = 2

====
